---- MODULE Spec2Model ----
(***************************************************************************)
(* Model of app.py, the school records manager: the four tables of         *)
(* escuela.db, run_query, generate_report_data and the handlers of main(). *)
(*                                                                         *)
(* Each handler is one action, taken from the state the page was drawn in: *)
(* its button is on the page only when the reads before it returned rows.  *)
(* Every run_query call of a handler either executes and commits its       *)
(* statement or raises, which run_query catches (the store is left as it   *)
(* was, the error is shown, False is returned); the action draws the       *)
(* outcome of each call as an input.                                       *)
(*                                                                         *)
(* Columns that no handler reads back (edad, grado, descripcion) and the   *)
(* row ids of asignaciones and calificaciones, which no query selects, are *)
(* not carried: those two tables are bags of rows.  Scores are held in     *)
(* tenths, a mean as a fraction in lowest terms.                           *)
(***************************************************************************)
EXTENDS Integers, Sequences, FiniteSets, Bags

\* ---------------------------------------------------------------- bounds
\* the number of handler runs a behaviour holds; every counter of the store
\* (AUTOINCREMENT ids, row counts) grows by at most one statement at a time
MaxPasos == 6

NombresAlumno == {"Ana", "Luis"}
\* in ascending collation order, as ORDER BY m.nombre compares them
OrdenMaterias == <<"Art", "Math">>
NombresMateria == {OrdenMaterias[i] : i \in DOMAIN OrdenMaterias}
\* number_input(min 0.0, max 10.0, step 0.1), in tenths
Notas == {60, 80}
\* CURRENT_DATE on the days of entry
Fechas == {1, 2}

\* db: the file escuela.db; msgs: what the last handler run put on the page;
\* pasos: the handler runs so far
VARIABLES db, msgs, pasos
vars == <<db, msgs, pasos>>

\* ------------------------------------------------------------- messages
MsgError == "Error en base de datos"
MsgAlumnoGuardado == "Alumno guardado."
MsgActualizado == "Datos actualizados."
MsgEliminado == "Alumno eliminado."
MsgMateriaCreada == "Materia creada."
MsgPlan == "Plan de estudios actualizado"
MsgNota == "Nota registrada."
MsgReporte == "Reportes listos para descargar."
MsgSinNotas == "aun no tiene calificaciones registradas"

\* ------------------------------------------------------------ utilities
Max(S) == CHOOSE x \in S : \A y \in S : y <= x
Min(S) == CHOOSE x \in S : \A y \in S : x <= y

RECURSIVE Gcd(_, _)
Gcd(a, b) == IF b = 0 THEN a ELSE Gcd(b, a % b)

\* the rows D of bag B, with their multiplicities
Rows(B, D) == [r \in D |-> B[r]]

\* ------------------------------------------------------------- the store
\* init_db: the four tables, created empty; AUTOINCREMENT keeps the highest
\* id ever given to alumnos and materias.
init_db ==
    [ alumnos        |-> << >>,
      materias       |-> << >>,
      asignaciones   |-> EmptyBag,
      calificaciones |-> EmptyBag,
      seqAlumnos     |-> 0,
      seqMaterias    |-> 0 ]

AlumnoIds(d) == DOMAIN d.alumnos
MateriaIds(d) == DOMAIN d.materias

\* The effect of one statement on the store.
Execute(d, q) ==
    CASE q.sql = "INSERT alumnos" ->
           LET id == d.seqAlumnos + 1 IN
           [d EXCEPT !.alumnos = [i \in AlumnoIds(d) \cup {id} |->
                                    IF i = id THEN q.nombre ELSE d.alumnos[i]],
                     !.seqAlumnos = id]
      [] q.sql = "UPDATE alumnos" ->
           [d EXCEPT !.alumnos = [i \in AlumnoIds(d) |->
                                    IF i = q.id THEN q.nombre ELSE d.alumnos[i]]]
      [] q.sql = "DELETE alumnos" ->
           [d EXCEPT !.alumnos = [i \in AlumnoIds(d) \ {q.id} |-> d.alumnos[i]]]
      [] q.sql = "DELETE asignaciones" ->
           [d EXCEPT !.asignaciones =
               Rows(d.asignaciones,
                    {r \in DOMAIN d.asignaciones : r.alumno_id # q.alumno_id})]
      [] q.sql = "DELETE calificaciones" ->
           [d EXCEPT !.calificaciones =
               Rows(d.calificaciones,
                    {r \in DOMAIN d.calificaciones : r.alumno_id # q.alumno_id})]
      [] q.sql = "INSERT materias" ->
           LET id == d.seqMaterias + 1 IN
           [d EXCEPT !.materias = [i \in MateriaIds(d) \cup {id} |->
                                    IF i = id THEN q.nombre ELSE d.materias[i]],
                     !.seqMaterias = id]
      [] q.sql = "DELETE materias" ->
           [d EXCEPT !.materias = [i \in MateriaIds(d) \ {q.id} |-> d.materias[i]]]
      [] q.sql = "INSERT asignaciones" ->
           [d EXCEPT !.asignaciones = d.asignaciones (+)
               SetToBag({[alumno_id |-> q.alumno_id, materia_id |-> q.materia_id]})]
      [] q.sql = "INSERT calificaciones" ->
           [d EXCEPT !.calificaciones = d.calificaciones (+)
               SetToBag({[alumno_id |-> q.alumno_id, materia_id |-> q.materia_id,
                          nota |-> q.nota, fecha |-> q.fecha]})]

\* run_query with return_data=False: the statement executes and is committed
\* (True), or it raises, st.error shows the message, the connection is closed
\* without a commit and False is returned.
run_query(d, q, ok) ==
    IF ok THEN [db |-> Execute(d, q), ret |-> TRUE,  shown |-> {}]
          ELSE [db |-> d,             ret |-> FALSE, shown |-> {MsgError}]

\* A handler's run_query calls in order, each on the store the previous one
\* left (every call opens its own connection and commits on its own); no
\* handler reads a return value, so a call that raised does not stop the rest.
RECURSIVE RunAll(_, _, _)
RunAll(d, qs, oks) ==
    IF qs = << >> THEN [db |-> d, shown |-> {}]
    ELSE LET r    == run_query(d, Head(qs), Head(oks))
             rest == RunAll(r.db, Tail(qs), Tail(oks))
         IN [db |-> rest.db, shown |-> r.shown \cup rest.shown]

Outcomes(n) == [1..n -> BOOLEAN]

\* ------------------------------------------------------------- queries
\* the ids of S in ascending order: SELECT without ORDER BY scans by rowid
RECURSIVE Ascending(_)
Ascending(S) ==
    IF S = {} THEN << >> ELSE <<Min(S)>> \o Ascending(S \ {Min(S)})

\* run_query("SELECT id, nombre FROM <table>", return_data=True)
SelectIdNombre(t) ==
    LET ids == Ascending(DOMAIN t) IN [i \in DOMAIN ids |-> <<ids[i], t[ids[i]]>>]

\* {nombre: id for id, nombre in rows}: a later row replaces an earlier one
\* that has the same nombre
DictNombreId(rows) ==
    LET keys == {rows[i][2] : i \in DOMAIN rows} IN
    [n \in keys |-> rows[Max({i \in DOMAIN rows : rows[i][2] = n})][1]]

dict_alumnos(d) == DictNombreId(SelectIdNombre(d.alumnos))
dict_materias(d) == DictNombreId(SelectIdNombre(d.materias))

\* {f"{id} - {nombre}": id ...}: the key holds the id, so every row keeps its
\* own entry; the selection is named by its id
opciones(d) == [i \in AlumnoIds(d) |-> i]

\* SELECT m.id, m.nombre FROM materias m JOIN asignaciones a
\*   ON m.id = a.materia_id WHERE a.alumno_id = ?
materias_asignadas(d, id_alumno) ==
    {<<r.materia_id, d.materias[r.materia_id]>> :
        r \in {x \in DOMAIN d.asignaciones :
                 x.alumno_id = id_alumno /\ x.materia_id \in MateriaIds(d)}}

\* a lookup over the whole catalogue, as if the join with asignaciones were
\* left out of the query
dict_mat_asig_catalogo(d, id_alumno) ==
    [n \in {d.materias[i] : i \in MateriaIds(d)} |->
        {i \in MateriaIds(d) : d.materias[i] = n}]

\* {nombre: id for id, nombre in materias_asignadas}: the join has no ORDER
\* BY, so of two assigned subjects of one name either id may be the one kept
dict_mat_asig(d, id_alumno) ==
    LET rows == materias_asignadas(d, id_alumno) IN
    [n \in {r[2] : r \in rows} |-> {r[1] : r \in {x \in rows : x[2] = n}}]

\* the selected names as a list, one INSERT each
RECURSIVE ListOf(_, _)
ListOf(S, i) ==
    IF i > Len(OrdenMaterias) THEN << >>
    ELSE (IF OrdenMaterias[i] \in S THEN <<OrdenMaterias[i]>> ELSE << >>)
         \o ListOf(S, i + 1)

\* -------------------------------------------------------------- report
Rank(n) == CHOOSE i \in DOMAIN OrdenMaterias : OrdenMaterias[i] = n

\* ORDER BY m.nombre, c.fecha DESC
Before(d, x, y) ==
    \/ Rank(d.materias[x.materia_id]) < Rank(d.materias[y.materia_id])
    \/ /\ d.materias[x.materia_id] = d.materias[y.materia_id]
       /\ x.fecha >= y.fecha

\* the rows the three-table join keeps for alumno_id
Joined(d, alumno_id) ==
    Rows(d.calificaciones,
         {c \in DOMAIN d.calificaciones : /\ c.alumno_id = alumno_id
                                          /\ c.alumno_id \in AlumnoIds(d)
                                          /\ c.materia_id \in MateriaIds(d)})

\* SELECT a.nombre, m.nombre, c.nota, c.fecha over the join, in order
RECURSIVE Fetch(_, _)
Fetch(d, C) ==
    IF DOMAIN C = {} THEN << >>
    ELSE LET c == CHOOSE x \in DOMAIN C : \A y \in DOMAIN C : Before(d, x, y)
         IN <<[Alumno       |-> d.alumnos[c.alumno_id],
               Materia      |-> d.materias[c.materia_id],
               Calificacion |-> c.nota,
               Fecha        |-> c.fecha]>>
            \o Fetch(d, C (-) SetToBag({c}))

RECURSIVE SumCalificacion(_)
SumCalificacion(rows) ==
    IF rows = << >> THEN 0
    ELSE Head(rows).Calificacion + SumCalificacion(Tail(rows))

\* the key a row of df is grouped under
GroupKey(r) == <<r.Alumno, r.Materia>>

\* 'sum' given as the aggregate where 'mean' is meant
Mean_sum(rows) == [num |-> SumCalificacion(rows), den |-> 1]

\* 'mean' of a group: sum / count, kept as a fraction in lowest terms
Mean(rows) ==
    LET s == SumCalificacion(rows)
        n == Len(rows)
        g == Gcd(s, n)
    IN [num |-> s \div g, den |-> n \div g]

\* df.groupby(['Alumno','Materia']).agg(mean, count).reset_index(): one row
\* per key, keys in ascending order
RECURSIVE Summary(_, _)
Summary(df, i) ==
    IF i > Len(OrdenMaterias) THEN << >>
    ELSE LET keys  == {GroupKey(df[k]) : k \in DOMAIN df}
             mine  == {key \in keys : key[2] = OrdenMaterias[i]}
             Row(key) ==
                 LET grp == SelectSeq(df, LAMBDA r : GroupKey(r) = key) IN
                 [Alumno |-> key[1], Materia |-> key[2],
                  Promedio_Materia |-> Mean(grp), Total_Notas |-> Len(grp)]
         IN (IF mine = {} THEN << >> ELSE <<Row(CHOOSE key \in mine : TRUE)>>)
            \o Summary(df, i + 1)

\* generate_report_data: the fetch returns rows, an empty list, or False when
\* the statement raised; 'if data' lets only a non-empty list through
generate_report_data(d, alumno_id, ok) ==
    LET data == IF ok THEN Fetch(d, Joined(d, alumno_id)) ELSE << >> IN
    IF data # << >>
    THEN [df |-> data,  df_summary |-> Summary(data, 1)]
    ELSE [df |-> << >>, df_summary |-> << >>]

\* ------------------------------------------------------------ handlers
Init ==
    /\ db = init_db
    /\ msgs = {}
    /\ pasos = 0

\* one more handler run, within the bound
Paso ==
    /\ pasos < MaxPasos
    /\ pasos' = pasos + 1

\* form add_alumno, "Guardar Alumno"
add_alumno(nombre, ok) ==
    LET r == run_query(db, [sql |-> "INSERT alumnos", nombre |-> nombre], ok) IN
    /\ db' = r.db
    /\ msgs' = r.shown \cup {MsgAlumnoGuardado}

\* form edit_alumno, "Actualizar"
edit_alumno_update(id_sel, new_nombre, ok) ==
    LET r == run_query(db, [sql |-> "UPDATE alumnos", id |-> id_sel,
                            nombre |-> new_nombre], ok) IN
    /\ id_sel \in {opciones(db)[k] : k \in DOMAIN opciones(db)}
    /\ db' = r.db
    /\ msgs' = r.shown \cup {MsgActualizado}

\* form edit_alumno, "Borrar Alumno": three statements, each committed alone
edit_alumno_delete(id_sel, oks) ==
    LET r == RunAll(db, << [sql |-> "DELETE alumnos", id |-> id_sel],
                           [sql |-> "DELETE asignaciones", alumno_id |-> id_sel],
                           [sql |-> "DELETE calificaciones", alumno_id |-> id_sel] >>,
                    oks) IN
    /\ id_sel \in {opciones(db)[k] : k \in DOMAIN opciones(db)}
    /\ db' = r.db
    /\ msgs' = r.shown \cup {MsgEliminado}

\* form add_materia, "Crear Materia"
add_materia(nombre_mat, ok) ==
    LET r == run_query(db, [sql |-> "INSERT materias", nombre |-> nombre_mat], ok) IN
    /\ db' = r.db
    /\ msgs' = r.shown \cup {MsgMateriaCreada}

\* "Eliminar Materia": the first row of df_mat that has the selected name
EliminarMateria(del_materia, ok) ==
    LET rows   == SelectIdNombre(db.materias)
        id_mat == rows[Min({i \in DOMAIN rows : rows[i][2] = del_materia})][1]
        r      == run_query(db, [sql |-> "DELETE materias", id |-> id_mat], ok)
    IN
    /\ del_materia \in {rows[i][2] : i \in DOMAIN rows}
    /\ db' = r.db
    /\ msgs' = r.shown

\* the statements of "Guardar Asignaciones" for the selections made
PlanStatements(d, alumno_sel, nuevas_asignaciones) ==
    LET id_alumno == dict_alumnos(d)[alumno_sel]
        sel       == ListOf(nuevas_asignaciones, 1)
    IN << [sql |-> "DELETE asignaciones", alumno_id |-> id_alumno] >>
       \o [i \in DOMAIN sel |->
             [sql |-> "INSERT asignaciones", alumno_id |-> id_alumno,
              materia_id |-> dict_materias(d)[sel[i]]]]

\* "Guardar Asignaciones"
GuardarAsignaciones(alumno_sel, nuevas_asignaciones, oks) ==
    LET r == RunAll(db, PlanStatements(db, alumno_sel, nuevas_asignaciones), oks) IN
    /\ AlumnoIds(db) # {} /\ MateriaIds(db) # {}
    /\ alumno_sel \in DOMAIN dict_alumnos(db)
    /\ nuevas_asignaciones \subseteq DOMAIN dict_materias(db)
    /\ db' = r.db
    /\ msgs' = r.shown \cup {MsgPlan}

\* "Guardar Nota": only the subjects assigned to the student are offered;
\* fecha takes CURRENT_DATE, the day of the entry
GuardarNota(alumno_calif, materia_calif, id_mat_calif, nota, hoy, ok) ==
    LET id_alumno_calif == dict_alumnos(db)[alumno_calif]
        r == run_query(db, [sql |-> "INSERT calificaciones",
                            alumno_id |-> id_alumno_calif,
                            materia_id |-> id_mat_calif,
                            nota |-> nota, fecha |-> hoy], ok)
    IN
    /\ alumno_calif \in DOMAIN dict_alumnos(db)
    /\ materia_calif \in DOMAIN dict_mat_asig(db, id_alumno_calif)
    /\ id_mat_calif \in dict_mat_asig(db, id_alumno_calif)[materia_calif]
    /\ db' = r.db
    /\ msgs' = r.shown \cup {MsgNota}

\* tab "Reporte de Boletin"
Reporte(alumno_reporte, ok) ==
    LET rep == generate_report_data(db, dict_alumnos(db)[alumno_reporte], ok) IN
    /\ alumno_reporte \in DOMAIN dict_alumnos(db)
    /\ db' = db
    /\ msgs' = (IF ok THEN {} ELSE {MsgError})
               \cup (IF rep.df # << >> THEN {MsgReporte} ELSE {MsgSinNotas})

\* One handler run at a time (the script runs to its end before the next
\* click is served), on inputs the page offers.
Next ==
    \/ Paso /\ \E nombre \in NombresAlumno, ok \in BOOLEAN :
                  add_alumno(nombre, ok)
    \/ Paso /\ \E id_sel \in AlumnoIds(db), n \in NombresAlumno, ok \in BOOLEAN :
                  edit_alumno_update(id_sel, n, ok)
    \/ Paso /\ \E id_sel \in AlumnoIds(db), oks \in Outcomes(3) :
                  edit_alumno_delete(id_sel, oks)
    \/ Paso /\ \E nombre_mat \in NombresMateria, ok \in BOOLEAN :
                  add_materia(nombre_mat, ok)
    \/ Paso /\ \E del_materia \in NombresMateria, ok \in BOOLEAN :
                  EliminarMateria(del_materia, ok)
    \/ Paso /\ \E alumno_sel \in NombresAlumno, nuevas \in SUBSET NombresMateria :
                  \E oks \in Outcomes(1 + Cardinality(nuevas)) :
                     GuardarAsignaciones(alumno_sel, nuevas, oks)
    \/ Paso /\ \E alumno_calif \in NombresAlumno, materia_calif \in NombresMateria,
                   id_mat_calif \in MateriaIds(db), nota \in Notas, hoy \in Fechas,
                   ok \in BOOLEAN :
                  GuardarNota(alumno_calif, materia_calif, id_mat_calif, nota, hoy, ok)
    \/ Paso /\ \E alumno_reporte \in NombresAlumno, ok \in BOOLEAN :
                  Reporte(alumno_reporte, ok)

\* ---------------------------------------------------------------- claims
AsigDe(d, s) ==
    Rows(d.asignaciones, {r \in DOMAIN d.asignaciones : r.alumno_id = s})
CalifDe(d, s) ==
    Rows(d.calificaciones, {r \in DOMAIN d.calificaciones : r.alumno_id = s})
UnaPorMateria(s, X) == SetToBag({[alumno_id |-> s, materia_id |-> m] : m \in X})
Exito == {MsgAlumnoGuardado, MsgActualizado, MsgEliminado, MsgMateriaCreada,
          MsgPlan, MsgNota, MsgReporte}
NoRegistrados(d) == (1..(d.seqAlumnos + 1)) \ AlumnoIds(d)

\* C1: a step that removes the alumnos row of student s leaves no
\* asignaciones row and no calificaciones row of s, so that no row ever
\* references a student that has no alumnos row.
C1_DeleteCascades ==
    [][\A s \in AlumnoIds(db) \ AlumnoIds(db') :
          /\ DOMAIN AsigDe(db', s) = {}
          /\ DOMAIN CalifDe(db', s) = {}]_vars

\* C2: after "Guardar Asignaciones" has run for a student with the subjects X
\* selected, the asignaciones rows of that student are exactly one row per
\* subject of X when no statement raised; and in any case they are rows of X
\* alone, each pair once, or the rows as they were: never the old plan joined
\* to the new one, never a pair twice.
C2_FullReplace ==
    [][\A sel \in DOMAIN dict_alumnos(db) :
       \A nuevas \in SUBSET DOMAIN dict_materias(db) :
       \A oks \in Outcomes(1 + Cardinality(nuevas)) :
          LET id  == dict_alumnos(db)[sel]
              new == UnaPorMateria(id, {dict_materias(db)[n] : n \in nuevas})
          IN GuardarAsignaciones(sel, nuevas, oks) =>
                /\ MsgError \notin msgs' => AsigDe(db', id) = new
                /\ \/ AsigDe(db', id) \sqsubseteq new
                   \/ AsigDe(db', id) = AsigDe(db, id)]_vars

\* C3: "Guardar Asignaciones" leaves the student with the old plan or with
\* the complete new plan, nothing in between.
C3_PlanAtomic ==
    [][\A sel \in DOMAIN dict_alumnos(db) :
       \A nuevas \in SUBSET DOMAIN dict_materias(db) :
       \A oks \in Outcomes(1 + Cardinality(nuevas)) :
          LET id  == dict_alumnos(db)[sel]
              new == UnaPorMateria(id, {dict_materias(db)[n] : n \in nuevas})
          IN GuardarAsignaciones(sel, nuevas, oks) =>
                AsigDe(db', id) \in {AsigDe(db, id), new}]_vars

\* C4: a handler run in which a statement raised leaves the store as it was
\* and shows the error and no message of success.
C4_FailureAbandoned ==
    [][(MsgError \in msgs') => (db' = db /\ (msgs' \cap Exito) = {})]_vars

\* C5: every calificaciones row a step adds is for a (student, subject) pair
\* that has an asignaciones row in the state the step starts from.
C5_GradeOnlyForEnrolled ==
    [][\A r \in DOMAIN db'.calificaciones :
          CopiesIn(r, db'.calificaciones) > CopiesIn(r, db.calificaciones) =>
             \E a \in DOMAIN db.asignaciones :
                a.alumno_id = r.alumno_id /\ a.materia_id = r.materia_id]_vars

\* a grade has just been saved, for a student enrolled in its subject
C5_Witness ==
    /\ msgs = {MsgNota}
    /\ \E r \in DOMAIN db.calificaciones : \E a \in DOMAIN db.asignaciones :
          a.alumno_id = r.alumno_id /\ a.materia_id = r.materia_id

\* C6: for every registered student the detail table has as many rows as
\* calificaciones has rows of that student, and each detail row carries the
\* score and the date of one of them.
C6_OneRowPerGrade ==
    \A s \in AlumnoIds(db) :
       LET df == generate_report_data(db, s, TRUE).df IN
       /\ Len(df) = BagCardinality(CalifDe(db, s))
       /\ \A k \in DOMAIN df : \E c \in DOMAIN CalifDe(db, s) :
             c.nota = df[k].Calificacion /\ c.fecha = df[k].Fecha

\* C7: whenever the detail table of a student is not empty, the summary has
\* exactly one row per subject name of the detail table; the row's
\* Total_Notas is the number of detail rows of that name, its
\* Promedio_Materia is the sum of their scores over that number, and the
\* Total_Notas add up to the number of detail rows.
C7_SummaryAggregatesDetail ==
    \A s \in AlumnoIds(db) :
       LET rep   == generate_report_data(db, s, TRUE)
           df    == rep.df
           sm    == rep.df_summary
           De(n) == SelectSeq(df, LAMBDA r : r.Materia = n)
           Tot[k \in 0..Len(sm)] ==
               IF k = 0 THEN 0 ELSE Tot[k - 1] + sm[k].Total_Notas
       IN df # << >> =>
          /\ {sm[k].Materia : k \in DOMAIN sm} = {df[k].Materia : k \in DOMAIN df}
          /\ \A j, k \in DOMAIN sm : sm[j].Materia = sm[k].Materia => j = k
          /\ \A k \in DOMAIN sm :
                /\ sm[k].Total_Notas = Len(De(sm[k].Materia))
                /\ sm[k].Promedio_Materia.num * sm[k].Total_Notas
                     = SumCalificacion(De(sm[k].Materia)) * sm[k].Promedio_Materia.den
          /\ Tot[Len(sm)] = Len(df)

\* the report has just been shown for a student whose summary holds a
\* subject with two grades, 6.0 and 8.0, averaged to 7.0
C7_Witness ==
    /\ msgs = {MsgReporte}
    /\ \E s \in AlumnoIds(db) :
          LET sm == generate_report_data(db, s, TRUE).df_summary IN
          \E k \in DOMAIN sm :
             /\ sm[k].Total_Notas = 2
             /\ sm[k].Promedio_Materia = [num |-> 70, den |-> 1]

\* C8: every asignaciones row and every calificaciones row names a materia_id
\* that has a row in materias.
C8_SubjectExists ==
    \A r \in DOMAIN db.asignaciones \cup DOMAIN db.calificaciones :
       r.materia_id \in MateriaIds(db)

\* C9: for a registered student with no grades the report is the empty pair
\* of tables, and it differs from the report of an id that is not registered.
C9_EmptyReportDistinct ==
    \A s \in AlumnoIds(db) :
       DOMAIN CalifDe(db, s) = {} =>
          /\ generate_report_data(db, s, TRUE) = [df |-> << >>, df_summary |-> << >>]
          /\ \A t \in NoRegistrados(db) :
                generate_report_data(db, s, TRUE) # generate_report_data(db, t, TRUE)

\* C10: every registered student is the one some entry of the name-to-id
\* lookup resolves to, also when two students have the same name.
C10_SelectionReachesEveryStudent ==
    \A s \in AlumnoIds(db) :
       \E n \in DOMAIN dict_alumnos(db) : dict_alumnos(db)[n] = s

Spec == Init /\ [][Next]_vars
====
